---- MODULE Spec2Model ----
(***************************************************************************)
(* A model of psxmem (src/src/lib.rs): the PSX memory card codec.          *)
(* Bytes are naturals in 0..255; a byte slice is a sequence (1-based, so   *)
(* Rust's d[i] is d[i + 1] here).  A fallible function returns a record    *)
(* [err |-> "Ok" | "BadChecksum" | "Deku" | "Io", val |-> ...].            *)
(***************************************************************************)
EXTENDS Integers, Sequences, FiniteSets, TLC

\* src/src/lib.rs:17-18
BLOCK == 8192
FRAME == 128

\* The fixed record counts of block 0 and the number of data blocks.
N_DIR == 15
N_BROKEN == 20
N_UNUSED == 27
N_BLOCKS == 15

Byte == 0 .. 255

(***************************************************************************)
(* Bit operations on naturals (Rust's ^ and & on u8 / usize).              *)
(***************************************************************************)
RECURSIVE BitXor(_, _)
BitXor(a, b) ==
  IF a = 0 THEN b
  ELSE IF b = 0 THEN a
  ELSE (((a % 2) + (b % 2)) % 2) + 2 * BitXor(a \div 2, b \div 2)

RECURSIVE BitAnd(_, _)
BitAnd(a, b) ==
  IF a = 0 \/ b = 0 THEN 0
  ELSE ((a % 2) * (b % 2)) + 2 * BitAnd(a \div 2, b \div 2)

Min(a, b) == IF a < b THEN a ELSE b

\* Rust's d[from..] and d[from..to] (0-based, `to` exclusive).
SliceFrom(d, from) == SubSeq(d, from + 1, Len(d))
Slice(d, from, to) == SubSeq(d, from + 1, to)

Zeros(n) == [i \in 1 .. n |-> 0]

Ok(v) == [err |-> "Ok", val |-> v]
Err(e) == [err |-> e, val |-> << >>]

\* Rust's `let x = r?; F(x)`: the error of r, or F of its value.
AndThen(r, F(_)) == IF r.err # "Ok" THEN r ELSE F(r.val)

\* A `loop { ... }` is its body, Body, applied to the loop's state until the
\* body breaks or returns.  The state st has st.err = "Run" while the loop
\* runs; a body leaves a state that no longer runs as it is.  Iterate applies
\* the body k times (by halves), and k is chosen no less than the number of
\* turns the loop can take.
Running(st) == st.err = "Run"
Run(v) == [err |-> "Run", val |-> v]

RECURSIVE Iterate(_, _, _)
Iterate(Body(_), st, k) ==
  IF ~Running(st) \/ k = 0 THEN st
  ELSE IF k = 1 THEN Body(st)
  ELSE Iterate(Body, Iterate(Body, st, k \div 2), k - (k \div 2))

(***************************************************************************)
(* The checksum engine.                                                    *)
(***************************************************************************)
\* The XOR of d[lo] .. d[hi], 0 for an empty range.  XOR is associative and
\* commutative, so the loop's left fold is computed here by halves, and a
\* range of zero bytes (which XOR to 0) is not split further.
RECURSIVE XorFold(_, _, _)
XorHalves(d, lo, mid, hi) == BitXor(XorFold(d, lo, mid), XorFold(d, mid + 1, hi))

XorFold(d, lo, hi) ==
  IF \A i \in lo .. hi : d[i] = 0 THEN 0
  ELSE IF lo = hi THEN d[lo]
  ELSE XorHalves(d, lo, (lo + hi) \div 2, hi)

\* A faulty fold that also takes in the checksum byte itself.
calc_checksum_all(d) == XorFold(d, 1, Min(FRAME, Len(d)))

\* d.iter().take(FRAME - 1) folded with ^=.
calc_checksum(d) == XorFold(d, 1, Min(FRAME - 1, Len(d)))

\* d[FRAME - 1] on a slice shorter than a frame is an index panic.
validate_checksum(d) ==
  IF Len(d) < FRAME THEN Err("Panic")
  ELSE IF calc_checksum(d) # d[FRAME] THEN Err("BadChecksum")
  ELSE Ok(<< >>)

\* A faulty stamp that leaves the checksum byte as it was.
update_checksum_stale(d) == Ok(d)

\* The stamped record e, once validate_checksum(e)? has passed.
validated(e) == AndThen(validate_checksum(e), LAMBDA u : Ok(e))

update_checksum(d) == validated([d EXCEPT ![FRAME] = calc_checksum(d)])

(***************************************************************************)
(* Little-endian integers (deku, endian = "little").                       *)
(***************************************************************************)
U16_from(d, o) == d[o + 1] + 256 * d[o + 2]
U32_from(d, o) ==
  d[o + 1] + 256 * d[o + 2] + 65536 * d[o + 3] + 16777216 * d[o + 4]
U16_to(v) == << v % 256, (v \div 256) % 256 >>
\* A faulty encoder that writes the most significant byte first.
U32_to_be(v) ==
  << (v \div 16777216) % 256, (v \div 65536) % 256, (v \div 256) % 256, v % 256 >>

U32_to(v) ==
  << v % 256, (v \div 256) % 256, (v \div 65536) % 256, (v \div 16777216) % 256 >>

(***************************************************************************)
(* The frame codec: the four fixed 128-byte record shapes and TitleFrame.  *)
(* from_bytes reads the record at byte offset o of d and fails (deku's     *)
(* Incomplete) when fewer than 128 bytes are left.                         *)
(***************************************************************************)
Header_from_bytes(d, o) ==
  IF Len(d) - o < FRAME THEN Err("Deku")
  ELSE Ok([id |-> Slice(d, o, o + 2),
           pad |-> Slice(d, o + 2, o + 127),
           checksum |-> d[o + 128]])

Header_to_bytes(h) == h.id \o h.pad \o << h.checksum >>

DirectoryFrame_from_bytes(d, o) ==
  IF Len(d) - o < FRAME THEN Err("Deku")
  ELSE Ok([state |-> U32_from(d, o),
           filesize |-> U32_from(d, o + 4),
           next_block |-> U16_from(d, o + 8),
           filename |-> Slice(d, o + 10, o + 31),
           pad |-> Slice(d, o + 31, o + 127),
           checksum |-> d[o + 128]])

DirectoryFrame_to_bytes(f) ==
  U32_to(f.state) \o U32_to(f.filesize) \o U16_to(f.next_block)
    \o f.filename \o f.pad \o << f.checksum >>

BrokenFrame_from_bytes(d, o) ==
  IF Len(d) - o < FRAME THEN Err("Deku")
  ELSE Ok([broken_frame |-> U32_from(d, o),
           pad |-> Slice(d, o + 4, o + 127),
           checksum |-> d[o + 128]])

BrokenFrame_to_bytes(f) ==
  U32_to(f.broken_frame) \o f.pad \o << f.checksum >>

Frame_from_bytes(d, o) ==
  IF Len(d) - o < FRAME THEN Err("Deku")
  ELSE Ok([data |-> Slice(d, o, o + FRAME)])

Frame_to_bytes(f) == f.data

TitleFrame_from_bytes(d, o) ==
  IF Len(d) - o < FRAME THEN Err("Deku")
  ELSE Ok([id |-> Slice(d, o, o + 2),
           display |-> d[o + 3],
           block_num |-> d[o + 4],
           title |-> Slice(d, o + 4, o + 68),
           reserved |-> Slice(d, o + 68, o + 96),
           icon_palette |-> [k \in 1 .. 16 |-> U16_from(d, o + 96 + 2 * (k - 1))]])

RECURSIVE PaletteBytes(_, _)
PaletteBytes(pal, k) ==
  IF k > Len(pal) THEN << >> ELSE U16_to(pal[k]) \o PaletteBytes(pal, k + 1)

TitleFrame_to_bytes(t) ==
  t.id \o << t.display, t.block_num >> \o t.title \o t.reserved
    \o PaletteBytes(t.icon_palette, 1)

(***************************************************************************)
(* load: n records, each validated before it is decoded.  The first record *)
(* is read before the count is looked at, as in the source's loop.         *)
(***************************************************************************)
\* validate_checksum(input) on the slice input = d[o..]
validate_at(d, o) == validate_checksum(SliceFrom(d, o))

\* One turn of the loop; st.val is [frame, next], next the offset in d of the
\* bytes not yet read.
DirectoryFrame_loop(d, n, st) ==
  IF ~Running(st) THEN st
  ELSE IF Len(st.val.frame) = n THEN Ok(st.val.frame)
  ELSE AndThen(validate_at(d, st.val.next), LAMBDA u :
       AndThen(DirectoryFrame_from_bytes(d, st.val.next), LAMBDA df :
       Run([frame |-> Append(st.val.frame, df), next |-> st.val.next + FRAME])))

\* The first record is validated, read and pushed before the count is
\* compared, so with n = 0 the loop runs until a record fails or the input
\* runs out; it takes at most one turn for each FRAME bytes of input, and one
\* more.  BrokenFrame::load and Frame::load are the same loop.
DirectoryFrame_load(d, o, n) ==
  AndThen(validate_at(d, o), LAMBDA u :
  AndThen(DirectoryFrame_from_bytes(d, o), LAMBDA df :
  Iterate(LAMBDA st : DirectoryFrame_loop(d, n, st),
          Run([frame |-> << df >>, next |-> o + FRAME]),
          ((Len(d) - o) \div FRAME) + 1)))

\* One turn of the loop; st.val is [frame, next], next the offset in d of the
\* bytes not yet read.
BrokenFrame_loop(d, n, st) ==
  IF ~Running(st) THEN st
  ELSE IF Len(st.val.frame) = n THEN Ok(st.val.frame)
  ELSE AndThen(validate_at(d, st.val.next), LAMBDA u :
       AndThen(BrokenFrame_from_bytes(d, st.val.next), LAMBDA df :
       Run([frame |-> Append(st.val.frame, df), next |-> st.val.next + FRAME])))

BrokenFrame_load(d, o, n) ==
  AndThen(validate_at(d, o), LAMBDA u :
  AndThen(BrokenFrame_from_bytes(d, o), LAMBDA df :
  Iterate(LAMBDA st : BrokenFrame_loop(d, n, st),
          Run([frame |-> << df >>, next |-> o + FRAME]),
          ((Len(d) - o) \div FRAME) + 1)))

\* A faulty loop that validates only the first frame of the run.
Frame_loop_unchecked(d, n, st) ==
  IF ~Running(st) THEN st
  ELSE IF Len(st.val.frame) = n THEN Ok(st.val.frame)
  ELSE AndThen(Frame_from_bytes(d, st.val.next), LAMBDA df :
       Run([frame |-> Append(st.val.frame, df), next |-> st.val.next + FRAME]))

\* One turn of the loop; st.val is [frame, next], next the offset in d of the
\* bytes not yet read.
Frame_loop(d, n, st) ==
  IF ~Running(st) THEN st
  ELSE IF Len(st.val.frame) = n THEN Ok(st.val.frame)
  ELSE AndThen(validate_at(d, st.val.next), LAMBDA u :
       AndThen(Frame_from_bytes(d, st.val.next), LAMBDA df :
       Run([frame |-> Append(st.val.frame, df), next |-> st.val.next + FRAME])))

Frame_load(d, o, n) ==
  AndThen(validate_at(d, o), LAMBDA u :
  AndThen(Frame_from_bytes(d, o), LAMBDA df :
  Iterate(LAMBDA st : Frame_loop(d, n, st),
          Run([frame |-> << df >>, next |-> o + FRAME]),
          ((Len(d) - o) \div FRAME) + 1)))

(***************************************************************************)
(* InfoBlock: block 0 of the card.                                         *)
(***************************************************************************)
InfoBlock_open(b) ==
  AndThen(validate_checksum(b), LAMBDA u0 :
  AndThen(Header_from_bytes(b, 0), LAMBDA header :
  AndThen(DirectoryFrame_load(b, FRAME, N_DIR), LAMBDA dir_frames :
  AndThen(BrokenFrame_load(b, (Len(dir_frames) * FRAME) + FRAME, N_BROKEN),
          LAMBDA broken_frames :
  AndThen(Frame_load(b, (Len(dir_frames) * FRAME) + FRAME
                          + Len(broken_frames) * FRAME, N_UNUSED),
          LAMBDA unused_frames :
  LET offset == (Len(dir_frames) * FRAME) + FRAME
                  + Len(broken_frames) * FRAME + Len(unused_frames) * FRAME
  IN  AndThen(validate_at(b, offset), LAMBDA u1 :
      AndThen(Header_from_bytes(b, offset), LAMBDA wr_test_frame :
      Ok([header |-> header,
          dir_frames |-> dir_frames,
          broken_frames |-> broken_frames,
          unused_frames |-> unused_frames,
          wr_test_frame |-> wr_test_frame]))))))))

\* out.write_all(update_checksum(&mut r)?) for each serialized record of rs,
\* appended to the bytes acc already written.
RECURSIVE write_stamped(_, _, _)
write_stamped(rs, i, acc) ==
  IF acc.err # "Ok" \/ i > Len(rs) THEN acc
  ELSE AndThen(update_checksum(rs[i]), LAMBDA bytes :
       write_stamped(rs, i + 1, Ok(acc.val \o bytes)))

InfoBlock_write(info) ==
  LET h == write_stamped(<< Header_to_bytes(info.header) >>, 1, Ok(<< >>))
      d == write_stamped([i \in 1 .. Len(info.dir_frames) |->
                            DirectoryFrame_to_bytes(info.dir_frames[i])], 1, h)
      b == write_stamped([i \in 1 .. Len(info.broken_frames) |->
                            BrokenFrame_to_bytes(info.broken_frames[i])], 1, d)
      u == write_stamped([i \in 1 .. Len(info.unused_frames) |->
                            Frame_to_bytes(info.unused_frames[i])], 1, b)
  IN  write_stamped(<< Header_to_bytes(info.wr_test_frame) >>, 1, u)

(***************************************************************************)
(* DataBlock: one save block.                                              *)
(***************************************************************************)
\* One turn of the loop; st.val is [frame, next], next the offset in input of
\* the bytes not yet read.
read_loop(input, num_frames, st) ==
  IF ~Running(st) THEN st
  ELSE IF Len(st.val.frame) = num_frames THEN Ok(st.val.frame)
  ELSE AndThen(Frame_from_bytes(input, st.val.next), LAMBDA f :
       Run([frame |-> Append(st.val.frame, f), next |-> st.val.next + FRAME]))

\* The first frame is read and pushed before the count is compared.  The
\* loop takes at most one turn for each frame of input, and one more.
read_n_frames(input, num_frames) ==
  AndThen(Frame_from_bytes(input, 0), LAMBDA f :
  Iterate(LAMBDA st : read_loop(input, num_frames, st),
          Run([frame |-> << f >>, next |-> FRAME]),
          (Len(input) \div FRAME) + 1))

\* A faulty loader that takes the whole display byte as the icon count.
load_data_block_unmasked(b) ==
  AndThen(TitleFrame_from_bytes(b, 0), LAMBDA title_frame :
  AndThen(read_n_frames(SliceFrom(b, FRAME), title_frame.display),
          LAMBDA icon_frames :
  LET next == FRAME + (FRAME * Len(icon_frames))
      num_frames == Len(SliceFrom(b, next)) \div FRAME
  IN  AndThen(read_n_frames(SliceFrom(b, next), num_frames), LAMBDA data_frames :
      Ok([title_frame |-> title_frame,
          icon_frames |-> icon_frames,
          data_frames |-> data_frames]))))

load_data_block(b) ==
  AndThen(TitleFrame_from_bytes(b, 0), LAMBDA title_frame :
  AndThen(read_n_frames(SliceFrom(b, FRAME), BitAnd(title_frame.display, 3)),
          LAMBDA icon_frames :
  LET next == FRAME + (FRAME * Len(icon_frames))
      num_frames == Len(SliceFrom(b, next)) \div FRAME
  IN  AndThen(read_n_frames(SliceFrom(b, next), num_frames), LAMBDA data_frames :
      Ok([title_frame |-> title_frame,
          icon_frames |-> icon_frames,
          data_frames |-> data_frames]))))

RECURSIVE load_all_loop(_, _, _)
load_all_loop(v, i, out) ==
  IF i > Len(v) THEN Ok(out)
  ELSE AndThen(load_data_block(v[i]), LAMBDA db :
       load_all_loop(v, i + 1, Append(out, db)))

load_all_data_blocks(v) == load_all_loop(v, 1, << >>)

\* The bytes of the frames fs[lo] .. fs[hi] written one after the other
\* (concatenated by halves).
RECURSIVE write_frames(_, _, _)
write_frames(fs, lo, hi) ==
  IF lo > hi THEN << >>
  ELSE IF lo = hi THEN Frame_to_bytes(fs[lo])
  ELSE LET mid == (lo + hi) \div 2
       IN  write_frames(fs, lo, mid) \o write_frames(fs, mid + 1, hi)

\* A faulty writer that emits the payload frames before the icon frames.
DataBlock_write_swapped(db) ==
  TitleFrame_to_bytes(db.title_frame)
    \o write_frames(db.data_frames, 1, Len(db.data_frames))
    \o write_frames(db.icon_frames, 1, Len(db.icon_frames))

DataBlock_write(db) ==
  TitleFrame_to_bytes(db.title_frame)
    \o write_frames(db.icon_frames, 1, Len(db.icon_frames))
    \o write_frames(db.data_frames, 1, Len(db.data_frames))

(***************************************************************************)
(* MemCard: the whole card.                                                *)
(***************************************************************************)
\* read_exact of the k-th Block (0..15) of the file.
read_block(file, k) ==
  IF Len(file) < (k + 1) * BLOCK THEN Err("Io")
  ELSE Ok(Slice(file, k * BLOCK, (k + 1) * BLOCK))

RECURSIVE read_blocks(_, _)
read_blocks(file, blocks) ==
  IF Len(blocks) = N_BLOCKS THEN Ok(blocks)
  ELSE AndThen(read_block(file, Len(blocks) + 1), LAMBDA blk :
       read_blocks(file, Append(blocks, blk)))

\* A file's content is kept as the sequence of its chunks of FRAME bytes (the
\* last one shorter when the length is no multiple of FRAME).  FileChunks
\* cuts a byte sequence into them and FileBytes joins chunks lo .. hi again.
FileChunks(bytes) ==
  [k \in 1 .. (Len(bytes) + FRAME - 1) \div FRAME |->
     SubSeq(bytes, (k - 1) * FRAME + 1, Min(k * FRAME, Len(bytes)))]

RECURSIVE FileBytes(_, _, _)
FileBytes(chunks, lo, hi) ==
  IF lo > hi THEN << >>
  ELSE IF lo = hi THEN chunks[lo]
  ELSE LET mid == (lo + hi) \div 2
       IN  FileBytes(chunks, lo, mid) \o FileBytes(chunks, mid + 1, hi)

MemCard_open(file) ==
  AndThen(read_block(file, 0), LAMBDA block0 :
  AndThen(InfoBlock_open(block0), LAMBDA info :
  AndThen(read_block(file, 1), LAMBDA blk :
  AndThen(read_blocks(file, << blk >>), LAMBDA blocks :
  AndThen(load_all_data_blocks(blocks), LAMBDA data :
  Ok([info |-> info, data |-> data]))))))

RECURSIVE write_blocks(_, _, _)
\* A faulty writer that emits the blocks last slot first.
write_blocks_rev(ds, lo, hi) ==
  IF lo > hi THEN << >>
  ELSE IF lo = hi THEN DataBlock_write(ds[lo])
  ELSE LET mid == (lo + hi) \div 2
       IN  write_blocks(ds, mid + 1, hi) \o write_blocks(ds, lo, mid)

\* The bytes of the blocks ds[lo] .. ds[hi] written one after the other
\* (concatenated by halves).
write_blocks(ds, lo, hi) ==
  IF lo > hi THEN << >>
  ELSE IF lo = hi THEN DataBlock_write(ds[lo])
  ELSE LET mid == (lo + hi) \div 2
       IN  write_blocks(ds, lo, mid) \o write_blocks(ds, mid + 1, hi)

MemCard_write(m) ==
  AndThen(InfoBlock_write(m.info), LAMBDA bytes :
  Ok(bytes \o write_blocks(m.data, 1, Len(m.data))))

(***************************************************************************)
(* The title decoder.  A String is the sequence of its characters' code    *)
(* points; `b as char` of a byte b is the code point b.                    *)
(***************************************************************************)
\* A faulty decoder that translates digits and capitals like small letters.
decode_pair_shifted(lead, trail) ==
  IF lead = 129 THEN (IF trail = 64 THEN << 32 >> ELSE << >>)
  ELSE IF lead = 130 THEN
    (IF (trail >= 79 /\ trail <= 88) \/ (trail >= 96 /\ trail <= 121)
       THEN << trail - 32 >>
     ELSE IF trail >= 129 /\ trail <= 154 THEN << trail - 32 >>
     ELSE << >>)
  ELSE << >>

\* The characters the pair (lead, trail) pushes onto s.
decode_pair(lead, trail) ==
  IF lead = 129 THEN (IF trail = 64 THEN << 32 >> ELSE << >>)
  ELSE IF lead = 130 THEN
    (IF (trail >= 79 /\ trail <= 88) \/ (trail >= 96 /\ trail <= 121)
       THEN << trail - 31 >>
     ELSE IF trail >= 129 /\ trail <= 154 THEN << trail - 32 >>
     ELSE << >>)
  ELSE << >>

\* One turn of the loop at cursor p (0-based) with s decoded so far.
RECURSIVE decode_loop(_, _, _)
decode_loop(title, p, s) ==
  IF title[p + 1] = 0 THEN s
  ELSE LET s2 == s \o decode_pair(title[p + 1], title[p + 2])
       IN  IF p + 2 >= Len(title) THEN s2 ELSE decode_loop(title, p + 2, s2)

decode_title(tf) == Ok(decode_loop(tf.title, 0, << >>))

(***************************************************************************)
(* translate_bmp_to_rgba.  u16 and u8 values keep their width.             *)
(***************************************************************************)
\* v >> n on an unsigned value.
Shr(v, n) == v \div (2 ^ n)

\* x as u8 * 8, in 8 bits.
Times8(x) == ((x % 256) * 8) % 256

\* A faulty pixel that takes the high nibble of the byte first.
translate_pixel_swapped(self, v, s) ==
  LET index == BitAnd(Shr(v, 4 * (1 - s)), 15)
      pixel == self.title_frame.icon_palette[index + 1]
  IN  << Times8(BitAnd(pixel, 31)),
         Times8(Shr(BitAnd(pixel, (31 * 2 ^ 5) % 65536), 5)),
         Times8(Shr(BitAnd(pixel, (31 * 2 ^ 10) % 65536), 10)),
         255 >>

\* The four bytes pushed for half s (0, 1) of the byte v.
translate_pixel(self, v, s) ==
  LET index == BitAnd(Shr(v, 4 * s), 15)
      pixel == self.title_frame.icon_palette[index + 1]
  IN  << Times8(BitAnd(pixel, 31)),
         Times8(Shr(BitAnd(pixel, (31 * 2 ^ 5) % 65536), 5)),
         Times8(Shr(BitAnd(pixel, (31 * 2 ^ 10) % 65536), 10)),
         255 >>

\* The bytes pushed for the bytes data[lo] .. data[hi], s = 0 then s = 1 for
\* each (concatenated by halves).
RECURSIVE translate_loop(_, _, _, _)
translate_loop(self, data, lo, hi) ==
  IF lo > hi THEN << >>
  ELSE IF lo = hi
    THEN translate_pixel(self, data[lo], 0) \o translate_pixel(self, data[lo], 1)
  ELSE LET mid == (lo + hi) \div 2
       IN  translate_loop(self, data, lo, mid)
             \o translate_loop(self, data, mid + 1, hi)

translate_bmp_to_rgba(self, f) ==
  Ok(translate_loop(self, f.data, 1, Len(f.data)))

(***************************************************************************)
(* find_game.                                                              *)
(***************************************************************************)
make_ascii_lowercase(s) ==
  [i \in 1 .. Len(s) |-> IF s[i] >= 65 /\ s[i] <= 90 THEN s[i] + 32 ELSE s[i]]

\* str::contains
contains(haystack, needle) ==
  \E i \in 0 .. Len(haystack) - Len(needle) :
    SubSeq(haystack, i + 1, i + Len(needle)) = needle

\* A faulty match that compares the title as decoded, not lowered.
game_matches_cased(db, search) ==
  contains(decode_title(db.title_frame).val, make_ascii_lowercase(search))

\* The body of the loop: whether the block db is pushed onto found.
game_matches(db, search) ==
  LET needle == make_ascii_lowercase(search)
      haystack == make_ascii_lowercase(decode_title(db.title_frame).val)
  IN  contains(haystack, needle)

RECURSIVE find_loop(_, _, _, _)
find_loop(data, i, search, found) ==
  IF i > Len(data) THEN found
  ELSE find_loop(data, i + 1, search,
                 IF game_matches(data[i], search)
                   THEN Append(found, data[i]) ELSE found)

find_game(m, search) == Ok(find_loop(m.data, 1, search, << >>))

(***************************************************************************)
(* State.  op is the operation that acted last and res its error code.     *)
(***************************************************************************)
VARIABLES
  file,      \* the content of the card file, in chunks of FRAME bytes
  card,      \* the MemCard the caller holds (<< >> when none)
  written,   \* the MemCard value that was last written to file (<< >> when none)
  dirty,     \* whether the caller edited card since it was opened
  nedits,    \* how many edits the caller has made in all
  block,     \* a Block handed to InfoBlock::open or load_data_block
  loaded,    \* the InfoBlock or DataBlock that came back (<< >> when none)
  rec,       \* a 128-byte record handed to the checksum engine
  before,    \* that record as it was before the last operation on it
  title,     \* the title field of a TitleFrame
  decoded,   \* the String decode_title returned
  needle,    \* the search term of the last find_game
  found,     \* the blocks find_game returned
  icon,      \* an icon Frame handed to translate_bmp_to_rgba
  palette,   \* the icon_palette of the TitleFrame of the DataBlock it is called on
  rgba,      \* the Vec<u8> translate_bmp_to_rgba returned
  op,
  res

vars == << file, card, written, dirty, nedits, block, loaded, rec, before,
           title, decoded, needle, found, icon, palette, rgba, op, res >>

cardVars == << file, card, written, dirty, nedits >>
blockVars == << block, loaded >>
ckVars == << rec, before >>
titleVars == << title, decoded >>
findVars == << needle, found >>
iconVars == << icon, palette, rgba >>

NoCard ==
  file = << >> /\ card = << >> /\ written = << >> /\ dirty = FALSE /\ nedits = 0
NoBlock == block = << >> /\ loaded = << >>
NoRec == rec = << >> /\ before = << >>
NoTitle == title = << >> /\ decoded = << >>
NoFind == needle = << >> /\ found = << >>
NoIcon == icon = << >> /\ palette = << >> /\ rgba = << >>

(***************************************************************************)
(* The checksum engine on single records.                                  *)
(***************************************************************************)
\* Records that are zero but for bytes 0, 1, 126 and 127.
RecordInputs ==
  { [i \in 1 .. FRAME |->
       IF i = 1 THEN a ELSE IF i = 2 THEN b
       ELSE IF i = FRAME - 1 THEN c ELSE IF i = FRAME THEN k ELSE 0] :
    a \in {0, 77, 255}, b \in {0, 67}, c \in {0, 128}, k \in {0, 14} }

InitChecksum ==
  /\ rec \in RecordInputs
  /\ before = << >>
  /\ op = "init" /\ res = "Ok"
  /\ NoCard /\ NoBlock /\ NoTitle /\ NoFind /\ NoIcon

\* update_checksum(&mut rec)
CkUpdate ==
  /\ op \in {"init", "edit"}
  /\ LET u == update_checksum(rec)
     IN  /\ res' = u.err
         /\ rec' = IF u.err = "Ok" THEN u.val ELSE [rec EXCEPT ![FRAME] = calc_checksum(rec)]
  /\ before' = rec
  /\ op' = "update"
  /\ UNCHANGED << cardVars, blockVars, titleVars, findVars, iconVars >>

\* validate_checksum(&rec)
CkValidate ==
  /\ op \in {"init", "edit"}
  /\ res' = validate_checksum(rec).err
  /\ op' = "validate"
  /\ UNCHANGED << ckVars, cardVars, blockVars, titleVars, findVars, iconVars >>

\* The last byte of a stamped record is changed to v, and the record validated.
CkFlip ==
  /\ op = "update" /\ res = "Ok"
  /\ \E v \in Byte \ {rec[FRAME]} :
       /\ rec' = [rec EXCEPT ![FRAME] = v]
       /\ res' = validate_checksum([rec EXCEPT ![FRAME] = v]).err
  /\ before' = rec
  /\ op' = "flip"
  /\ UNCHANGED << cardVars, blockVars, titleVars, findVars, iconVars >>

\* The caller writes one byte of the record.
CkEdit ==
  /\ op = "init"
  /\ \E i \in {3, FRAME - 2, FRAME}, v \in {1, 129} :
       rec' = [rec EXCEPT ![i] = v]
  /\ before' = rec
  /\ op' = "edit"
  /\ UNCHANGED << res, cardVars, blockVars, titleVars, findVars, iconVars >>

NextChecksum == CkUpdate \/ CkValidate \/ CkFlip \/ CkEdit

SpecChecksum == InitChecksum /\ [][NextChecksum]_vars

\* Bit k (of weight w = 2^k) of the XOR of bytes 0..126 of r: the parity of
\* the number of those bytes that have the bit set.
ParityBit(r, w) ==
  Cardinality({ i \in 1 .. FRAME - 1 : (r[i] \div w) % 2 = 1 }) % 2

XorOfFirst127(r) ==
  ParityBit(r, 1) + 2 * ParityBit(r, 2) + 4 * ParityBit(r, 4)
    + 8 * ParityBit(r, 8) + 16 * ParityBit(r, 16) + 32 * ParityBit(r, 32)
    + 64 * ParityBit(r, 64) + 128 * ParityBit(r, 128)

\* C6: calc_checksum is the XOR of bytes 0..126 whatever byte 127 holds;
\* update_checksum succeeds, leaves bytes 0..126 as they were and sets byte 127
\* to that XOR, so that validate_checksum then succeeds; and a stamped record
\* whose byte 127 is changed to any other value fails validation with
\* BadChecksum.
C6_StampValidates ==
  /\ rec # << >> => calc_checksum(rec) = XorOfFirst127(rec)
  /\ op = "update" =>
       /\ res = "Ok"
       /\ SubSeq(rec, 1, FRAME - 1) = SubSeq(before, 1, FRAME - 1)
       /\ rec[FRAME] = XorOfFirst127(before)
       /\ validate_checksum(rec).err = "Ok"
  /\ op = "validate" => (res = "Ok" <=> rec[FRAME] = XorOfFirst127(rec))
  /\ op = "flip" => res = "BadChecksum"

\* A stamped record with a non-zero checksum had its last byte changed and
\* was then rejected.
C6_Witness ==
  /\ op = "flip" /\ res = "BadChecksum"
  /\ before[FRAME] = 14 /\ before[1] = 77 /\ rec[FRAME] = 15

(***************************************************************************)
(* The title decoder on single title fields.                               *)
(***************************************************************************)
\* Byte pairs on and around every boundary the decoder tests.
TitlePairs ==
  { << 129, 64 >>, << 129, 65 >>, << 130, 78 >>, << 130, 79 >>, << 130, 88 >>,
    << 130, 89 >>, << 130, 95 >>, << 130, 96 >>, << 130, 97 >>, << 130, 121 >>,
    << 130, 122 >>, << 130, 128 >>, << 130, 129 >>, << 130, 154 >>,
    << 130, 155 >>, << 0, 130 >>, << 0, 0 >>, << 131, 96 >>, << 32, 0 >>,
    << 255, 255 >> }

\* What fills pairs 2..30 of a title, and what its last pair may be.
TitleFill == { << 0, 0 >>, << 130, 96 >>, << 131, 0 >> }
TitleLast == { << 0, 0 >>, << 130, 129 >>, << 129, 64 >> }

\* The 64-byte title with pairs a, b first, then f repeated, and z last.
MkTitle(a, b, f, z) ==
  [i \in 1 .. 64 |->
     IF i <= 2 THEN a[i] ELSE IF i <= 4 THEN b[i - 2]
     ELSE IF i > 62 THEN z[i - 62] ELSE f[2 - (i % 2)]]

TitleInputs ==
  { MkTitle(a, b, f, z) : a \in TitlePairs, b \in TitlePairs,
                          f \in TitleFill, z \in TitleLast }

InitTitle ==
  /\ title \in TitleInputs
  /\ decoded = << >>
  /\ op = "init" /\ res = "Ok"
  /\ NoCard /\ NoBlock /\ NoRec /\ NoFind /\ NoIcon

\* tf.decode_title() on a TitleFrame with this title field.
DecodeTitle ==
  /\ op = "init"
  /\ LET r == decode_title([title |-> title])
     IN  res' = r.err /\ decoded' = r.val
  /\ op' = "decode"
  /\ UNCHANGED << title, cardVars, blockVars, ckVars, findVars, iconVars >>

NextTitle == DecodeTitle

SpecTitle == InitTitle /\ [][NextTitle]_vars

\* The reference decoder: the pairs before the first pair whose lead byte is
\* 0x00, each giving at most one character.
PairAt(t, k) == << t[2 * k - 1], t[2 * k] >>

StopPair(t) ==
  IF \E k \in 1 .. 32 : t[2 * k - 1] = 0
    THEN (CHOOSE k \in 1 .. 32 :
            t[2 * k - 1] = 0 /\ \A j \in 1 .. k - 1 : t[2 * j - 1] # 0) - 1
    ELSE 32

RefChar(pr) ==
  IF pr = << 129, 64 >> THEN << 32 >>
  ELSE IF pr[1] = 130 /\ (pr[2] \in 79 .. 88 \/ pr[2] \in 96 .. 121)
    THEN << pr[2] - 31 >>
  ELSE IF pr[1] = 130 /\ pr[2] \in 129 .. 154 THEN << pr[2] - 32 >>
  ELSE << >>

\* The pairs 1..n that give a character, and the k-th smallest of them.
Emitting(t, n) == { k \in 1 .. n : RefChar(PairAt(t, k)) # << >> }

Nth(S, k) == CHOOSE x \in S : Cardinality({ y \in S : y < x }) = k - 1

RefDecode(t) ==
  LET E == Emitting(t, StopPair(t))
  IN  [k \in 1 .. Cardinality(E) |-> RefChar(PairAt(t, Nth(E, k)))[1]]

\* C9: decode_title returns without error the reference decoder's string, of
\* at most 32 characters; a title starting 0x82 0x60 0x82 0x61 0x00 decodes to
\* "AB" and one starting 0x00 to the empty string.
C9_DecodeTitle ==
  op = "decode" =>
    /\ res = "Ok"
    /\ decoded = RefDecode(title)
    /\ Len(decoded) <= 32
    /\ (SubSeq(title, 1, 5) = << 130, 96, 130, 97, 0 >> => decoded = << 65, 66 >>)
    /\ (title[1] = 0 => decoded = << >>)

\* The title 0x82 0x60 0x82 0x61 0x00 ... was decoded to "AB".
C9_Witness ==
  /\ op = "decode"
  /\ SubSeq(title, 1, 5) = << 130, 96, 130, 97, 0 >>
  /\ decoded = << 65, 66 >>

(***************************************************************************)
(* load_data_block on single Blocks.                                       *)
(***************************************************************************)
\* Title display bytes: the three defined values, their low bits alone, and
\* values whose low two bits are 0 or that have other bits set.
DisplayInputs == { 17, 18, 19, 1, 2, 3, 255, 254, 253, 0, 20, 16, 160, 252 }

\* A Block with magic "SC", the given display byte, frame k (1..63) starting
\* with the byte k + m, and the block's last byte z.
MkDataBlock(display, m, z) ==
  [i \in 1 .. BLOCK |->
     IF i = 1 THEN 83 ELSE IF i = 2 THEN 67
     ELSE IF i = 3 THEN display ELSE IF i = 4 THEN 1
     ELSE IF i = BLOCK THEN z
     ELSE IF i > FRAME /\ i % FRAME = 1 THEN ((i - 1) \div FRAME) + m
     ELSE 0]

DataBlockInputs ==
  { MkDataBlock(d, m, z) : d \in DisplayInputs, m \in {0, 100}, z \in {0, 7, 255} }

InitBlock ==
  /\ block \in DataBlockInputs
  /\ loaded = << >>
  /\ op = "init" /\ res = "Ok"
  /\ NoCard /\ NoRec /\ NoTitle /\ NoFind /\ NoIcon

\* DataBlock::load_data_block(block)
LoadDataBlock ==
  /\ op = "init"
  /\ LET r == load_data_block(block)
     IN  res' = r.err /\ loaded' = r.val
  /\ op' = "load"
  /\ UNCHANGED << block, cardVars, ckVars, titleVars, findVars, iconVars >>

NextBlock == LoadDataBlock

SpecBlock == InitBlock /\ [][NextBlock]_vars

\* Frame k (0..63) of a Block, as a Frame.
FrameOf(b, k) == [data |-> SubSeq(b, k * FRAME + 1, (k + 1) * FRAME)]

IconCount(b) == b[3] % 4

\* C8: with display & 0x03 = k in 1..3 the load returns the k frames after
\* the title frame as icon frames and the remaining 64 - 1 - k frames as
\* payload frames, in order; with display = 0x12 that is 61 payload frames.
C8_FrameCounts ==
  (op = "load" /\ IconCount(block) \in 1 .. 3) =>
    LET k == IconCount(block)
    IN  /\ res = "Ok"
        /\ Len(loaded.icon_frames) = k
        /\ \A j \in 1 .. k : loaded.icon_frames[j] = FrameOf(block, j)
        /\ Len(loaded.data_frames) = 64 - 1 - k
        /\ \A j \in 1 .. 64 - 1 - k :
             loaded.data_frames[j] = FrameOf(block, k + j)
        /\ (1 + Len(loaded.icon_frames) + Len(loaded.data_frames)) * FRAME = BLOCK
        /\ (block[3] = 18 => Len(loaded.data_frames) = 61)

\* A Block with display = 0x12 was loaded: 2 icon frames, 61 payload frames.
C8_Witness ==
  /\ op = "load" /\ block[3] = 18 /\ res = "Ok"
  /\ Len(loaded.icon_frames) = 2 /\ Len(loaded.data_frames) = 61
  /\ loaded.data_frames[61].data[FRAME] = 255

\* C10: with display & 0x03 = 0 the load succeeds with no icon frames and
\* the 63 frames after the title frame as payload frames.
C10_ZeroIcons ==
  (op = "load" /\ IconCount(block) = 0) =>
    /\ res = "Ok"
    /\ Len(loaded.icon_frames) = 0
    /\ Len(loaded.data_frames) = 63
    /\ \A j \in 1 .. 63 : loaded.data_frames[j] = FrameOf(block, j)

(***************************************************************************)
(* InfoBlock::open on single Blocks.                                       *)
(***************************************************************************)
\* A valid block 0: header "MC", a first directory frame in use, a first
\* broken frame set, one non-zero unused frame, and v in the write-test frame.
MkInfoBlock(v) ==
  [i \in 1 .. BLOCK |->
     IF i = 1 THEN 77 ELSE IF i = 2 THEN 67 ELSE IF i = FRAME THEN 14
     ELSE IF i = FRAME + 1 THEN 81 ELSE IF i = FRAME + 6 THEN 32
     ELSE IF i = 2 * FRAME THEN 113
     ELSE IF i = 16 * FRAME + 1 THEN 9 ELSE IF i = 17 * FRAME THEN 9
     ELSE IF i = 40 * FRAME + 5 THEN 200 ELSE IF i = 41 * FRAME THEN 200
     ELSE IF i = 63 * FRAME + 1 THEN v ELSE IF i = BLOCK THEN v
     ELSE 0]

\* Block b with byte at offset o of record k (0..63) changed by XOR with x.
Corrupt(b, k, o, x) ==
  [b EXCEPT ![k * FRAME + o + 1] = BitXor(b[k * FRAME + o + 1], x)]

InfoBlockInputs ==
  { MkInfoBlock(v) : v \in {0, 77} }
    \cup { Corrupt(MkInfoBlock(0), k, o, 1) : k \in 0 .. 63, o \in {0, FRAME - 1} }
    \cup { Corrupt(Corrupt(MkInfoBlock(77), k, 5, 128), 63, FRAME - 1, 128) :
             k \in {0, 1, 15, 16, 35, 36, 62} }
    \cup { Corrupt(Corrupt(MkInfoBlock(0), k, 5, 128), k, FRAME - 1, 128) :
             k \in {0, 15, 35, 62, 63} }

InitInfo ==
  /\ block \in InfoBlockInputs
  /\ loaded = << >>
  /\ op = "init" /\ res = "Ok"
  /\ NoCard /\ NoRec /\ NoTitle /\ NoFind /\ NoIcon

\* InfoBlock::open(block)
OpenInfoBlock ==
  /\ op = "init"
  /\ LET r == InfoBlock_open(block)
     IN  res' = r.err /\ loaded' = r.val
  /\ op' = "open_info"
  /\ UNCHANGED << block, cardVars, ckVars, titleVars, findVars, iconVars >>

NextInfo == OpenInfoBlock

SpecInfo == InitInfo /\ [][NextInfo]_vars

\* Record k (0..63) of a Block passes validation.
RecordValid(b, k) ==
  b[(k + 1) * FRAME] = XorOfFirst127(SubSeq(b, k * FRAME + 1, (k + 1) * FRAME))

\* C5: InfoBlock::open fails with BadChecksum and returns no InfoBlock when any
\* of the 64 records of the block fails validation, and returns an InfoBlock
\* of 15 directory, 20 broken and 27 unused frames only when all 64 pass.
C5_AllOrNothing ==
  op = "open_info" =>
    /\ (\E k \in 0 .. 63 : ~RecordValid(block, k)) =>
         (res = "BadChecksum" /\ loaded = << >>)
    /\ res = "Ok" =>
         /\ \A k \in 0 .. 63 : RecordValid(block, k)
         /\ Len(loaded.dir_frames) = 15
         /\ Len(loaded.broken_frames) = 20
         /\ Len(loaded.unused_frames) = 27
    /\ res \in {"Ok", "BadChecksum"}

\* A block whose only bad record is the last unused frame was rejected.
C5_Witness ==
  /\ op = "open_info" /\ res = "BadChecksum" /\ loaded = << >>
  /\ ~RecordValid(block, 62)
  /\ \A k \in (0 .. 63) \ {62} : RecordValid(block, k)

(***************************************************************************)
(* Whole cards: open, caller edits, write.                                 *)
(***************************************************************************)
\* How many edits a caller makes in one run.
MaxEdits == 2

\* A save Block: magic "SC", the display byte, block number 1, the title t,
\* two palette entries, and frame k (1..63) holding the byte k + m first and
\* last.
MkSaveBlock(display, t, m) ==
  [i \in 1 .. BLOCK |->
     IF i = 1 THEN 83 ELSE IF i = 2 THEN 67
     ELSE IF i = 3 THEN display ELSE IF i = 4 THEN 1
     ELSE IF i >= 5 /\ i <= 68 THEN t[i - 4]
     ELSE IF i = 97 THEN 31 ELSE IF i = 100 THEN 124
     ELSE IF i > FRAME /\ (i % FRAME = 1 \/ i % FRAME = 0)
       THEN ((i - 1) \div FRAME) + m
     ELSE 0]

\* The title field that decodes to the ASCII string str.
EncodeTitle(str) ==
  [i \in 1 .. 64 |->
     IF (i + 1) \div 2 > Len(str) THEN 0
     ELSE LET c == str[(i + 1) \div 2]
          IN  IF c = 32 THEN (IF i % 2 = 1 THEN 129 ELSE 64)
              ELSE IF i % 2 = 1 THEN 130
              ELSE IF c >= 97 THEN c + 32 ELSE c + 31]

WildArms == << 87, 105, 108, 100, 32, 65, 114, 109, 115 >>
WILD == << 87, 73, 76, 68 >>
Wizard2 == << 119, 105, 122, 97, 114, 100, 32, 50 >>

RECURSIVE Concat(_, _)
Concat(bs, i) == IF i > Len(bs) THEN << >> ELSE bs[i] \o Concat(bs, i + 1)

\* A card image: block 0, then save blocks with display d1 and title t1 in
\* slot 1, title t2 in slot 2, display d3 in slot 3 and title t15 in slot 15.
MkImage(info, d1, t1, t2, d3, t15) ==
  info \o Concat([k \in 1 .. N_BLOCKS |->
                    IF k = 1 THEN MkSaveBlock(d1, EncodeTitle(t1), 0)
                    ELSE IF k = 2 THEN MkSaveBlock(18, EncodeTitle(t2), 64)
                    ELSE IF k = 3 THEN MkSaveBlock(d3, EncodeTitle(<< >>), 3)
                    ELSE IF k = 15 THEN MkSaveBlock(17, EncodeTitle(t15), 128)
                    ELSE MkSaveBlock(17, EncodeTitle(<< >>), k)], 1)

\* Cards that open, a card with a bad record in block 0, and a card with a
\* save block whose display byte has its low two bits clear.
CardImages ==
  { MkImage(MkInfoBlock(v), d1, WildArms, WILD, 17, Wizard2) :
      v \in {77}, d1 \in {17, 19} }
    \cup { MkImage(Corrupt(MkInfoBlock(0), 20, 0, 1), 17, WildArms, WILD, 17, Wizard2),
           MkImage(MkInfoBlock(0), 17, WildArms, WILD, 20, Wizard2) }

InitCard ==
  /\ file \in { FileChunks(img) : img \in CardImages }
  /\ card = << >> /\ written = << >> /\ dirty = FALSE /\ nedits = 0
  /\ op = "init" /\ res = "Ok"
  /\ NoBlock /\ NoRec /\ NoTitle /\ NoFind /\ NoIcon

\* let card = MemCard::open(file), at the start and after each write.
Open ==
  /\ op \in {"init", "write"}
  /\ LET r == MemCard_open(FileBytes(file, 1, Len(file)))
     IN  res' = r.err /\ card' = r.val
  /\ dirty' = FALSE
  /\ op' = "open"
  /\ UNCHANGED << file, written, nedits, blockVars, ckVars, titleVars, findVars, iconVars >>

Edited ==
  /\ dirty' = TRUE
  /\ nedits' = nedits + 1
  /\ op' = "edit"
  /\ UNCHANGED << file, written, res, blockVars, ckVars, titleVars, findVars, iconVars >>

\* The caller edits a card it has opened, before it writes the card.
CanEdit == card # << >> /\ op \in {"open", "edit"} /\ nedits < MaxEdits

\* card.info.header.id = [0x11, 0x22]
EditHeaderId ==
  /\ CanEdit
  /\ card' = [card EXCEPT !.info.header.id = << 17, 34 >>]
  /\ Edited

\* card.info.dir_frames[0].filesize = 4000000
EditFilesize ==
  /\ CanEdit
  /\ card' = [card EXCEPT !.info.dir_frames[1].filesize = 4000000]
  /\ Edited

\* card.info.broken_frames[0].broken_frame = 12345
EditBrokenFrame ==
  /\ CanEdit
  /\ card' = [card EXCEPT !.info.broken_frames[1].broken_frame = 12345]
  /\ Edited

\* card.info.unused_frames[26].data[0] = 9
EditUnusedFrame ==
  /\ CanEdit
  /\ card' = [card EXCEPT !.info.unused_frames[N_UNUSED].data[1] = 9]
  /\ Edited

\* card.data[0].icon_frames[0].data[127] = 0x5a
EditIconByte ==
  /\ CanEdit
  /\ card' = [card EXCEPT !.data[1].icon_frames[1].data[FRAME] = 90]
  /\ Edited

\* card.data[14].data_frames[61].data[63] = 0xa5
EditDataByte ==
  /\ CanEdit
  /\ card' = [card EXCEPT !.data[N_BLOCKS].data_frames[62].data[64] = 165]
  /\ Edited

\* card.write(file)
Write ==
  /\ card # << >>
  /\ op \in {"open", "edit"}
  /\ LET r == MemCard_write(card)
     IN  res' = r.err /\ file' = FileChunks(r.val)
  /\ written' = card
  /\ op' = "write"
  /\ UNCHANGED << card, dirty, nedits, blockVars, ckVars, titleVars, findVars, iconVars >>

NextCard ==
  \/ Open
  \/ EditHeaderId
  \/ EditFilesize
  \/ EditBrokenFrame
  \/ EditUnusedFrame
  \/ EditIconByte
  \/ EditDataByte
  \/ Write

SpecCard == InitCard /\ [][NextCard]_vars

Spec == SpecCard

\* The records of an InfoBlock with their checksum bytes blanked.
Unstamped(r) == [r EXCEPT !.checksum = 0]

UnstampedInfo(i) ==
  [header |-> Unstamped(i.header),
   dir_frames |-> [k \in 1 .. Len(i.dir_frames) |-> Unstamped(i.dir_frames[k])],
   broken_frames |->
     [k \in 1 .. Len(i.broken_frames) |-> Unstamped(i.broken_frames[k])],
   unused_frames |->
     [k \in 1 .. Len(i.unused_frames) |->
        [i.unused_frames[k] EXCEPT !.data[FRAME] = 0]],
   wr_test_frame |-> Unstamped(i.wr_test_frame)]

\* The checksum byte of each record of an InfoBlock is the XOR of the first
\* 127 bytes the record serializes to.
StampedInfo(i) ==
  /\ i.header.checksum = XorOfFirst127(Header_to_bytes(i.header))
  /\ i.wr_test_frame.checksum = XorOfFirst127(Header_to_bytes(i.wr_test_frame))
  /\ \A k \in 1 .. Len(i.dir_frames) :
       i.dir_frames[k].checksum
         = XorOfFirst127(DirectoryFrame_to_bytes(i.dir_frames[k]))
  /\ \A k \in 1 .. Len(i.broken_frames) :
       i.broken_frames[k].checksum
         = XorOfFirst127(BrokenFrame_to_bytes(i.broken_frames[k]))
  /\ \A k \in 1 .. Len(i.unused_frames) :
       i.unused_frames[k].data[FRAME] = XorOfFirst127(i.unused_frames[k].data)

\* The card was written and the written file opened again.
Reopened == op = "open" /\ written # << >>

\* C1: after caller edits of Header.id, DirectoryFrame.filesize and
\* BrokenFrame.broken_frame, write then open succeeds, the re-opened card has
\* the edited field values, and each record's checksum field is the XOR of the
\* record's first 127 serialized bytes.
C1_EditsSurviveWrite ==
  Reopened =>
    /\ res = "Ok"
    /\ card.info.header.id = written.info.header.id
    /\ \A k \in 1 .. N_DIR :
         Unstamped(card.info.dir_frames[k]) = Unstamped(written.info.dir_frames[k])
    /\ \A k \in 1 .. N_BROKEN :
         Unstamped(card.info.broken_frames[k])
           = Unstamped(written.info.broken_frames[k])
    /\ StampedInfo(card.info)

\* A card whose first directory frame got filesize 4000000 was written and
\* re-opened: the new filesize is there, under a new checksum.
C1_Witness ==
  /\ Reopened /\ res = "Ok"
  /\ written.info.dir_frames[1].filesize = 4000000
  /\ card.info.dir_frames[1].filesize = 4000000
  /\ written.info.dir_frames[1].checksum = 113
  /\ card.info.dir_frames[1].checksum # 113

\* C2 as claimed: write then open gives back a MemCard equal to the one
\* written in all fields, checksum fields included, also after edits.
C2_RoundTripEqual == Reopened => (res = "Ok" /\ card = written)

\* C2 as amended: write then open gives back a MemCard equal to the one
\* written in all fields other than the checksum bytes of the records of its
\* InfoBlock, and equal in those too when they held the XOR of their record's
\* first 127 bytes (as on a card not edited).
C2_RoundTripButChecksums ==
  Reopened =>
    /\ res = "Ok"
    /\ UnstampedInfo(card.info) = UnstampedInfo(written.info)
    /\ card.data = written.data
    /\ StampedInfo(written.info) => card = written

\* An edited card (header id and an icon byte) was written and re-opened: it
\* came back with the edits, and differs from the written value.
C2_Witness ==
  /\ Reopened /\ res = "Ok"
  /\ written.info.header.id = << 17, 34 >>
  /\ written.data[1].icon_frames[1].data[FRAME] = 90
  /\ card.data = written.data
  /\ card # written

\* C3: writing a card that was not edited since it was opened emits the
\* 16 * 8192 bytes of the file it was opened from.
C3_UnmodifiedWriteIsIdentity ==
  [][op' = "write" /\ ~dirty =>
       /\ res' = "Ok"
       /\ file' = file
       /\ Len(FileBytes(file', 1, Len(file'))) = 16 * BLOCK]_vars

\* An unedited card with non-zero checksum bytes was written.
C3_Witness ==
  /\ op = "write" /\ ~dirty /\ res = "Ok"
  /\ Len(FileBytes(file, 1, Len(file))) = 16 * BLOCK
  /\ file[1][FRAME] = 14 /\ file[2][FRAME] = 113 /\ file[16 * 64][FRAME] = 191

\* Frame k (0..1023) of a card file is the first frame of a save block.
IsTitleFrame(k) == k >= 64 /\ k % 64 = 0

\* Frame k (0..1023) of a card file ends in the XOR of its first 127 bytes.
FrameValid(f, k) ==
  Len(f[k + 1]) = FRAME /\ f[k + 1][FRAME] = XorOfFirst127(f[k + 1])

\* C4 as claimed: every frame of the written file but the title frames ends
\* in the XOR of its first 127 bytes.
C4_EveryFrameStamped ==
  (op = "write" /\ res = "Ok") =>
    \A k \in 0 .. 16 * 64 - 1 : IsTitleFrame(k) \/ FrameValid(file, k)

\* C4 as amended: each of the 64 records of block 0 of the written file ends
\* in the XOR of its first 127 bytes; the frames of the save blocks are
\* written as the card holds them, with no checksum computed.
C4_InfoRecordsStamped ==
  (op = "write" /\ res = "Ok") =>
    /\ Len(file) = 16 * 64
    /\ \A k \in 0 .. 63 : FrameValid(file, k)
    /\ \A j \in 1 .. N_BLOCKS :
         LET db == written.data[j]
             n == Len(db.icon_frames)
         IN  /\ \A f \in 1 .. n : file[64 * j + f + 1] = db.icon_frames[f].data
             /\ \A f \in 1 .. Len(db.data_frames) :
                  file[64 * j + n + f + 1] = db.data_frames[f].data

\* A card with an edited header (stale checksum 14) and an edited icon frame
\* was written: the header record is stamped, the icon frame is as edited.
C4_Witness ==
  /\ op = "write" /\ res = "Ok"
  /\ written.info.header.id = << 17, 34 >> /\ written.info.header.checksum = 14
  /\ file[1][FRAME] = 51
  /\ written.data[1].icon_frames[1].data[FRAME] = 90
  /\ ~FrameValid(file, 65)

(***************************************************************************)
(* find_game on an opened card.                                            *)
(***************************************************************************)
\* Cards whose slots 1, 2 and 15 hold titled saves, two of them alike on
\* some cards; the other slots have an empty title.
FindImages ==
  { MkImage(MkInfoBlock(0), 17, t1, t2, 17, t15) :
      t1 \in {WildArms, Wizard2}, t2 \in {WILD, WildArms},
      t15 \in {Wizard2, WildArms} }

\* "", "WILD", "wild", "Wild", "wIlD A", "ARMS", "arms", "d a", "wizard 2",
\* "WIZARD", "2", "Z", "xyz", "Wild Arms!", "@RMS", "wild arm", "é".
Needles ==
  { << >>, << 87, 73, 76, 68 >>, << 119, 105, 108, 100 >>,
    << 87, 105, 108, 100 >>, << 119, 73, 108, 68, 32, 65 >>,
    << 65, 82, 77, 83 >>, << 97, 114, 109, 115 >>, << 100, 32, 97 >>,
    << 119, 105, 122, 97, 114, 100, 32, 50 >>, << 87, 73, 90, 65, 82, 68 >>,
    << 50 >>, << 90 >>, << 120, 121, 122 >>,
    << 87, 105, 108, 100, 32, 65, 114, 109, 115, 33 >>, << 64, 82, 77, 83 >>,
    << 119, 105, 108, 100, 32, 97, 114, 109 >>, << 233 >> }

InitFind ==
  /\ file \in { FileChunks(img) : img \in FindImages }
  /\ card = << >> /\ written = << >> /\ dirty = FALSE /\ nedits = 0
  /\ op = "init" /\ res = "Ok"
  /\ NoBlock /\ NoRec /\ NoTitle /\ NoFind /\ NoIcon

\* let found = card.find_game(search)
FindGame ==
  /\ card # << >>
  /\ op \in {"open", "find"}
  /\ \E search \in Needles :
       LET r == find_game(card, search)
       IN  needle' = search /\ res' = r.err /\ found' = r.val
  /\ op' = "find"
  /\ UNCHANGED << cardVars, blockVars, ckVars, titleVars, iconVars >>

NextFind == Open \/ FindGame

SpecFind == InitFind /\ [][NextFind]_vars

\* Two characters alike up to the case of ASCII letters.
CaseEq(a, b) ==
  \/ a = b
  \/ a \in 65 .. 90 /\ b = a + 32
  \/ b \in 65 .. 90 /\ a = b + 32

\* n occurs in t as a substring, up to the case of ASCII letters.
RefContains(t, n) ==
  \E i \in 0 .. Len(t) - Len(n) : \A j \in 1 .. Len(n) : CaseEq(t[i + j], n[j])

\* The slots of m whose decoded title contains n.
Matching(m, n) ==
  { k \in 1 .. Len(m.data) : RefContains(RefDecode(m.data[k].title_frame.title), n) }

\* The blocks of the slots of m whose title contains n, in slot order.
RefFind(m, n) ==
  LET M == Matching(m, n)
  IN  [k \in 1 .. Cardinality(M) |-> m.data[Nth(M, k)]]

ToUpper(s) ==
  [i \in 1 .. Len(s) |-> IF s[i] \in 97 .. 122 THEN s[i] - 32 ELSE s[i]]

ToLower(s) ==
  [i \in 1 .. Len(s) |-> IF s[i] \in 65 .. 90 THEN s[i] + 32 ELSE s[i]]

\* C7: find_game(needle) returns without error the blocks of exactly the
\* slots whose decoded title contains needle up to ASCII case, in slot order
\* and each once; the upper-cased and the lower-cased needle give the same
\* blocks; the card is left as it was.
C7_FindGame ==
  [][op' = "find" =>
       /\ res' = "Ok"
       /\ found' = RefFind(card, needle')
       /\ find_game(card, ToUpper(needle')).val = found'
       /\ find_game(card, ToLower(needle')).val = found'
       /\ card' = card]_vars

\* "WILD" was searched on a card with "Wild Arms" in slots 1 and 2: both
\* blocks were returned, slot 1 first, and not the "wizard 2" block.
C7_Witness ==
  /\ op = "find" /\ res = "Ok"
  /\ needle = << 87, 73, 76, 68 >>
  /\ card.data[1].title_frame.title = EncodeTitle(WildArms)
  /\ card.data[2].title_frame.title = EncodeTitle(WildArms)
  /\ card.data[N_BLOCKS].title_frame.title = EncodeTitle(Wizard2)
  /\ found = << card.data[1], card.data[2] >>
  /\ card.data[1] # card.data[2]

(***************************************************************************)
(* The icon translator on single icon frames.                              *)
(***************************************************************************)
\* Palette entries: black, pure red, green and blue, white without bit 15,
\* bit 15 alone, mixed colours, and last all sixteen bits set.
PaletteValues ==
  << 0, 31, 992, 31744, 32767, 61680, 32768, 4660, 43981, 1, 32, 1024,
     33823, 21845, 43690, 65535 >>

\* The 16-entry palette that holds PaletteValues rotated by r, each entry
\* changed by XOR with x.
MkPalette(r, x) ==
  [k \in 1 .. 16 |-> BitXor(PaletteValues[((k - 1 + r) % 16) + 1], x)]

PaletteInputs == { MkPalette(r, x) : r \in {0, 5, 11}, x \in {0, 32768, 21930} }

\* The icon Frame with first byte a, last byte z, and otherwise the bytes
\* g, g + 17, g + 34, ... (mod 256).
MkIcon(a, z, g) ==
  [data |-> [i \in 1 .. FRAME |->
               IF i = 1 THEN a ELSE IF i = FRAME THEN z ELSE (g + 17 * i) % 256]]

IconInputs ==
  { MkIcon(a, z, g) : a \in {0, 15, 240, 18, 255}, z \in {0, 154, 255}, g \in {0, 3} }

InitIcon ==
  /\ icon \in IconInputs
  /\ palette \in PaletteInputs
  /\ rgba = << >>
  /\ op = "init" /\ res = "Ok"
  /\ NoCard /\ NoBlock /\ NoRec /\ NoTitle /\ NoFind

\* let rgba = self.translate_bmp_to_rgba(&icon), self a DataBlock with this
\* palette in its title frame.
TranslateIcon ==
  /\ op = "init"
  /\ LET r == translate_bmp_to_rgba([title_frame |-> [icon_palette |-> palette]], icon)
     IN  res' = r.err /\ rgba' = r.val
  /\ op' = "translate"
  /\ UNCHANGED << icon, palette, cardVars, blockVars, ckVars, titleVars, findVars >>

NextIcon == TranslateIcon

SpecIcon == InitIcon /\ [][NextIcon]_vars

\* The palette index of pixel j (0..255) of an icon Frame: the low four bits
\* of byte j / 2 for an even j and its high four bits for an odd j.
RefIndex(f, j) ==
  LET byte == f.data[(j \div 2) + 1]
  IN  IF j % 2 = 0 THEN byte % 16 ELSE byte \div 16

\* Channel c (0 red, 1 green, 2 blue, 3 alpha) of the pixel of palette value p.
RefChannel(p, c) ==
  IF c = 3 THEN 255
  ELSE IF c = 0 THEN 8 * (p % 32)
  ELSE IF c = 1 THEN 8 * ((p \div 32) % 32)
  ELSE 8 * ((p \div 1024) % 32)

\* C11: translate_bmp_to_rgba returns without error exactly 1024 bytes;
\* byte i of the frame gives pixel 2i from palette[byte & 0x0F] and pixel
\* 2i + 1 from palette[(byte >> 4) & 0x0F]; the pixel of palette value p is
\* (8 * (p & 0x1F), 8 * ((p >> 5) & 0x1F), 8 * ((p >> 10) & 0x1F), 255); bit
\* 15 of p changes nothing and no colour channel is above 248.
C11_TranslateIcon ==
  op = "translate" =>
    /\ res = "Ok"
    /\ Len(rgba) = 1024
    /\ \A j \in 0 .. 255 : \A c \in 0 .. 3 :
         rgba[4 * j + c + 1] = RefChannel(palette[RefIndex(icon, j) + 1], c)
    /\ \A j \in 0 .. 255 : \A c \in 0 .. 2 : rgba[4 * j + c + 1] <= 248
    /\ \A j \in 0 .. 255 :
         LET p == palette[RefIndex(icon, j) + 1]
         IN  \A c \in 0 .. 3 :
               rgba[4 * j + c + 1] = RefChannel((p + 32768) % 65536, c)

\* A frame starting with the byte 0xF0 was translated under a palette whose
\* entry 0 is black and whose entry 15 has bit 15 and all colour bits set:
\* pixel 0 is opaque black and pixel 1 is (248, 248, 248, 255).
C11_Witness ==
  /\ op = "translate" /\ res = "Ok"
  /\ icon.data[1] = 240
  /\ palette[1] = 0 /\ palette[16] = 65535
  /\ SubSeq(rgba, 1, 8) = << 0, 0, 0, 255, 248, 248, 248, 255 >>
  /\ Len(rgba) = 1024

====
